---- MODULE Spec2Model ----
(***************************************************************************)
(* Content collection and synchronization engine of caafw-platform:        *)
(*   - the Fetch Client      backend/app/collectors/base.py                *)
(*   - the Synchronizer      backend/app/tasks/collector_tasks.py          *)
(*   - the Source Registry   backend/app/api/admin/sources.py,             *)
(*                           backend/app/api/admin/dashboard.py            *)
(*   - the collectors        backend/app/collectors/*.py (transform)       *)
(*   - on-demand collection  backend/app/api/community.py                  *)
(* Each component has its own next-state relation and specification; the   *)
(* variables of the other components stay unchanged under it.              *)
(***************************************************************************)
EXTENDS Integers, Sequences, FiniteSets, TLC

VARIABLES
    \* ---- Fetch Client (one BaseCollector instance) ----
    fc_pc,        \* "idle" | "attempt" | "sleep" | "returned" | "raised"
    fc_log,       \* outcomes of the attempts of the current fetch_url call
    fc_waits,     \* seconds slept between the attempts of the current call
    fc_result,    \* what the caller of fetch_url got
    fc_calls,     \* number of fetch_url calls made so far
    client,       \* BaseCollector._client : "none" | "open" | "closed"
    \* ---- Synchronizer (one content type's table, the upsert_items calls) ----
    rows,         \* committed rows of the content type's table
    nextId,       \* next value of the table's id sequence
    run,          \* per worker: the upsert_items call it is executing
    up_calls,     \* number of upsert_items calls made so far
    \* ---- Source Registry (api_sources table, admin endpoints) ----
    sources,      \* committed rows of api_sources, by id
    req,          \* per admin client: the manual_fetch request it has open
    mf_calls,     \* number of manual_fetch requests made so far
    now,          \* the clock, in minutes
    health,       \* the status in the last answer of get_source_health, by source id
    \* ---- Source Registry: create, update, delete, test ----
    slugs,        \* the slug column of api_sources, by id
    srcSeq,       \* next value of the id sequence of api_sources
    admin_resp,   \* the answer to the last create, update, delete or test request
    \* ---- Collection task (one Celery task: collector.run, then upsert_items) ----
    t_pc,         \* "idle" | "collect" | "transform" | "finally" | "upsert" | "done"
    t_kind,       \* which collector class the task runs
    t_raw,        \* what collect() returned
    t_data,       \* what transform() returned
    t_exc,        \* the exception propagating out of run(), if any
    t_result,     \* the dict the task returned
    t_runs,       \* number of tasks started so far
    \* ---- Scheduler (Celery beat and the worker pool) ----
    queued,       \* periodic task messages beat has sent and no worker has taken
    running,      \* periodic task instances the workers are executing
    \* ---- The tasks that drive several collectors: collect_all, collect_jobs ----
    ca_pc,        \* collect_all: 0 idle, i the i-th task is called next, 9 returned
    ca_results,   \* collect_all: the results dict, by task name
    cj_pc,        \* collect_jobs: "idle" | "adzuna" | "muse" | "return" | "done"
    cj_tot,       \* collect_jobs: total_collected and total_inserted
    cj_log,       \* collect_jobs: how each collector it has driven went
    ca_runs,      \* number of collect_all and collect_jobs tasks started so far
    \* ---- transform() of the collectors ----
    tf_kind,      \* the collector whose transform() was called last
    tf_in,        \* the raw item it was called with
    tf_out        \* what the call did: the record it returned, or that it raised

varsFetch == <<fc_pc, fc_log, fc_waits, fc_result, fc_calls, client>>
varsSync == <<rows, nextId, run, up_calls>>
varsReg == <<sources, req, mf_calls, now, health>>
varsAdmin == <<slugs, srcSeq, admin_resp>>
varsTask == <<t_pc, t_kind, t_raw, t_data, t_exc, t_result, t_runs>>
varsSched == <<queued, running>>
varsAll == <<ca_pc, ca_results, cj_pc, cj_tot, cj_log, ca_runs>>
varsTransform == <<tf_kind, tf_in, tf_out>>
vars == <<varsFetch, varsSync, varsReg, varsAdmin, varsTask, varsSched, varsAll, varsTransform>>

None == "None"

\* ------------------------------------------------------------------------
\* Bounds
\* ------------------------------------------------------------------------
MaxFetchCalls == 2
MaxBatch == 2
MaxUpsertCalls == 2
MaxSourceId == 2
MaxManualFetches == 5
MaxItems == 1
TickStep == 6
MaxNow == 12
MaxSrcSeq == 4
MaxTestItems == 4
MaxTaskRuns == 2
MaxRaw == 2
MaxBeatNow == 45
MaxAllRuns == 2
MaxCollected == 1

\* ------------------------------------------------------------------------
\* Fetch Client: BaseCollector.fetch_url under tenacity's @retry
\* ------------------------------------------------------------------------

\* What one client.request() + raise_for_status() can do.
\*   "2xx"      response returned
\*   "4xx","5xx" raise_for_status raises httpx.HTTPStatusError
\*   "timeout","connect" client.request raises httpx.RequestError
Outcomes == {"2xx", "4xx", "5xx", "timeout", "connect"}
Transient == {"5xx", "timeout", "connect"}

\* Both except clauses of fetch_url log and re-raise.
Raises(o) == o \in {"4xx", "5xx", "timeout", "connect"}

\* @retry is given no retry= predicate: tenacity's default retries on every
\* exception the wrapped function raises.
RetryOn(o) == Raises(o)

\* a retry budget of one attempt more
StopOneLater == 3 + 1

\* stop=stop_after_attempt(3)
StopAfterAttempt == 3

\* wait=wait_exponential(multiplier=1, min=2, max=10)
WaitMultiplier == 1
WaitMin == 2
WaitMax == 10

Max2(a, b) == IF a >= b THEN a ELSE b
Min2(a, b) == IF a <= b THEN a ELSE b

\* a backoff without the lower clamp
WaitNoFloor(n) == Min2(WaitMultiplier * (2 ^ (n - 1)), WaitMax)

\* wait before the attempt that follows attempt number n (n >= 1):
\* clamp(multiplier * 2^(n-1), min, max)
WaitExponential(n) ==
    Max2(Max2(0, WaitMin), Min2(WaitMultiplier * (2 ^ (n - 1)), WaitMax))

\* get_client(): create the client when there is none or it was closed.
GetClient(c) == IF c = "none" \/ c = "closed" THEN "open" ELSE c

InitFetch ==
    /\ fc_pc = "idle"
    /\ fc_log = <<>>
    /\ fc_waits = <<>>
    /\ fc_result = None
    /\ fc_calls = 0
    /\ client = "none"

\* A caller invokes fetch_url (the previous call, if any, has finished).
FetchUrl ==
    /\ fc_pc \in {"idle", "returned", "raised"}
    /\ fc_calls < MaxFetchCalls
    /\ fc_pc' = "attempt"
    /\ fc_log' = <<>>
    /\ fc_waits' = <<>>
    /\ fc_result' = None
    /\ fc_calls' = fc_calls + 1
    /\ UNCHANGED client
    /\ UNCHANGED <<varsSync, varsReg, varsAdmin, varsTask, varsSched, varsAll, varsTransform>>

\* One execution of the body of fetch_url, with the retry decision that
\* tenacity takes on its outcome.
FetchAttempt(o) ==
    /\ fc_pc = "attempt"
    /\ client' = GetClient(client)
    /\ fc_log' = Append(fc_log, o)
    /\ IF ~RetryOn(o)
         THEN /\ fc_pc' = "returned"
              /\ fc_result' = "response"
              /\ UNCHANGED fc_waits
         ELSE IF Len(fc_log) + 1 >= StopAfterAttempt
           THEN /\ fc_pc' = "raised"
                /\ fc_result' = "RetryError"
                /\ UNCHANGED fc_waits
           ELSE /\ fc_pc' = "sleep"
                /\ fc_waits' = Append(fc_waits, WaitExponential(Len(fc_log) + 1))
                /\ UNCHANGED fc_result
    /\ UNCHANGED fc_calls
    /\ UNCHANGED <<varsSync, varsReg, varsAdmin, varsTask, varsSched, varsAll, varsTransform>>

\* The backoff sleep is over; the body runs again.
FetchSleep ==
    /\ fc_pc = "sleep"
    /\ fc_pc' = "attempt"
    /\ UNCHANGED <<fc_log, fc_waits, fc_result, fc_calls, client>>
    /\ UNCHANGED <<varsSync, varsReg, varsAdmin, varsTask, varsSched, varsAll, varsTransform>>

NextFetch ==
    \/ FetchUrl
    \/ \E o \in Outcomes : FetchAttempt(o)
    \/ FetchSleep


\* ------------------------------------------------------------------------
\* Synchronizer: upsert_items(model, items, unique_field)
\* ------------------------------------------------------------------------

\* The content type: the columns upsert_items touches, after the Job model
\* (id primary key; external_id nullable, not unique; title String(255),
\* nullable=False).
Columns == {"id", "external_id", "title"}
UniqueField == "external_id"

ExtIds == {"e1", "e2"}
Titles == {"a", "b"}
\* a title longer than the column's String(255)
TooLong == "toolong"

\* Canonical records as the dicts transform() returns.  A key outside Columns
\* ("bogus") is a field the model class does not have.
GoodItems == [external_id : ExtIds \cup {None}, title : Titles]
LongItems == [external_id : ExtIds, title : {TooLong}]
BogusItems == [external_id : ExtIds, title : {"a"}, bogus : {"x"}]
Items == GoodItems \cup LongItems \cup BogusItems

Batches == UNION {[1..n -> Items] : n \in 0..MaxBatch}

\* item.get(key)
ItemGet(item, key) == IF key \in DOMAIN item THEN item[key] ELSE None

\* hasattr(existing, key)
HasAttr(key) == key \in Columns

\* model(**item): the declarative constructor rejects a keyword that is not
\* an attribute of the class (TypeError).
CanConstruct(item) == \A k \in DOMAIN item : HasAttr(k)

\* a constructor that loses the record's title
ConstructNoTitle(item, id) ==
    [id |-> id, external_id |-> ItemGet(item, "external_id"), title |-> None]

Construct(item, id) ==
    [id |-> id,
     external_id |-> ItemGet(item, "external_id"),
     title |-> ItemGet(item, "title")]

\* an update branch that leaves the row as it was
SetAttrsKeepsOld(existing, item) == existing

\* for key, value in item.items():
\*     if hasattr(existing, key) and key != "id": setattr(existing, key, value)
SetAttrs(existing, item) ==
    [c \in DOMAIN existing |->
        IF c \in DOMAIN item /\ HasAttr(c) /\ c # "id" THEN item[c] ELSE existing[c]]

\* The table's constraints, enforced by the database when a row is written.
Violates(row) == row.title = None \/ row.title = TooLong

\* AsyncSessionLocal is built in app/db/database.py: a session that flushes
\* pending changes before each query, so that a lookup sees the rows added
\* earlier in the same batch.
AutoFlush == TRUE

\* rows of `over` replace the rows of `base` with the same id
Overlay(base, over) ==
    {r \in base : \A o \in over : o.id # r.id} \cup over

IdleRun ==
    [st |-> "idle", batch |-> <<>>, i |-> 1, inserted |-> 0, updated |-> 0,
     skipped |-> 0, tx |-> "active", flushed |-> {}, pending |-> {},
     rows0 |-> {}, result |-> None]

\* Session.flush(): write the pending changes inside the transaction.  A row
\* the database rejects rolls the transaction back and leaves the session
\* unusable until rollback() is called (which upsert_items never does).
Flush(s) ==
    IF \E r \in s.pending : Violates(r)
      THEN [s EXCEPT !.tx = "deactive", !.flushed = {}, !.pending = {}]
      ELSE [s EXCEPT !.flushed = Overlay(s.flushed, s.pending), !.pending = {}]

\* a lookup that never finds the row
LookupFindsNothing(s, table, key) == {}

\* what a SELECT of this session returns for the unique field's value
Lookup(s, table, key) ==
    {r \in Overlay(table, s.flushed) : r[UniqueField] = key}

\* the session's object for a row (the identity map keeps pending changes)
Loaded(s, row) ==
    IF \E p \in s.pending : p.id = row.id
      THEN CHOOSE p \in s.pending : p.id = row.id
      ELSE row

\* an except branch that counts the skipped record as inserted
SkipItemCountsInserted(s) ==
    [s EXCEPT !.i = s.i + 1, !.skipped = s.skipped + 1, !.inserted = s.inserted + 1]

\* except Exception: log, continue
SkipItem(s) == [s EXCEPT !.i = s.i + 1, !.skipped = s.skipped + 1]

\* The body of the for loop for one item: the new session state and the
\* number of ids taken from the sequence.
ProcessItem(s0, table, nid) ==
    LET item  == s0.batch[s0.i]
        s1    == IF AutoFlush /\ s0.tx = "active" THEN Flush(s0) ELSE s0
        found == Lookup(s1, table, ItemGet(item, UniqueField))
    IN  IF s1.tx # "active"
          THEN [s |-> SkipItem(s1), used |-> 0]   \* the query raises
        ELSE IF Cardinality(found) > 1
          THEN [s |-> SkipItem(s1), used |-> 0]   \* scalar_one_or_none raises
        ELSE IF found # {}
          THEN LET existing == Loaded(s1, CHOOSE r \in found : TRUE)
               IN [s |-> [s1 EXCEPT !.i = s1.i + 1,
                                    !.updated = s1.updated + 1,
                                    !.pending = Overlay(s1.pending,
                                                        {SetAttrs(existing, item)})],
                   used |-> 0]
        ELSE IF ~CanConstruct(item)
          THEN [s |-> SkipItem(s1), used |-> 0]   \* model(**item) raises
        ELSE [s |-> [s1 EXCEPT !.i = s1.i + 1,
                               !.inserted = s1.inserted + 1,
                               !.pending = s1.pending \cup {Construct(item, nid)}],
              used |-> 1]

InitSync ==
    /\ rows = {}
    /\ nextId = 1
    /\ run = [w \in {1} |-> IdleRun]
    /\ up_calls = 0

\* upsert_items is called with a batch; an empty batch returns 0 at once.
UpsertStart(w, B) ==
    /\ run[w].st = "idle"
    /\ up_calls < MaxUpsertCalls
    /\ up_calls' = up_calls + 1
    /\ run' = [run EXCEPT ![w] =
                 IF B = <<>>
                   THEN [IdleRun EXCEPT !.st = "returned", !.rows0 = rows, !.result = 0]
                   ELSE [IdleRun EXCEPT !.st = "running", !.batch = B, !.rows0 = rows]]
    /\ UNCHANGED <<rows, nextId>>
    /\ UNCHANGED <<varsFetch, varsReg, varsAdmin, varsTask, varsSched, varsAll, varsTransform>>

\* one iteration of the for loop
UpsertItem(w) ==
    /\ run[w].st = "running"
    /\ run[w].i <= Len(run[w].batch)
    /\ LET p == ProcessItem(run[w], rows, nextId)
       IN /\ run' = [run EXCEPT ![w] = p.s]
          /\ nextId' = nextId + p.used
    /\ UNCHANGED <<rows, up_calls>>
    /\ UNCHANGED <<varsFetch, varsReg, varsAdmin, varsTask, varsSched, varsAll, varsTransform>>

\* await session.commit(); return inserted
UpsertCommit(w) ==
    /\ run[w].st = "running"
    /\ run[w].i > Len(run[w].batch)
    /\ LET s == IF run[w].tx = "active" THEN Flush(run[w]) ELSE run[w]
       IN IF s.tx = "active"
            THEN /\ rows' = Overlay(rows, s.flushed)
                 /\ run' = [run EXCEPT ![w] =
                              [s EXCEPT !.st = "returned", !.flushed = {},
                                        !.result = s.inserted]]
            ELSE /\ rows' = rows
                 /\ run' = [run EXCEPT ![w] = [s EXCEPT !.st = "raised"]]
    /\ UNCHANGED <<nextId, up_calls>>
    /\ UNCHANGED <<varsFetch, varsReg, varsAdmin, varsTask, varsSched, varsAll, varsTransform>>

\* the caller has taken the returned count (or the exception); the session
\* and the locals of the call are gone
UpsertExit(w) ==
    /\ run[w].st \in {"returned", "raised"}
    /\ run' = [run EXCEPT ![w] = IdleRun]
    /\ UNCHANGED <<rows, nextId, up_calls>>
    /\ UNCHANGED <<varsFetch, varsReg, varsAdmin, varsTask, varsSched, varsAll, varsTransform>>

NextSync ==
    \/ \E w \in DOMAIN run :
          run[w].st = "idle" /\ \E B \in Batches : UpsertStart(w, B)
    \/ \E w \in DOMAIN run : UpsertItem(w)
    \/ \E w \in DOMAIN run : UpsertCommit(w)
    \/ \E w \in DOMAIN run : UpsertExit(w)

\* Two calls of upsert_items on the same table at the same time, each with
\* its own session: two of the four worker processes, or a worker and the
\* on-demand endpoint.  Each sees the committed rows and its own changes.
InitSyncConc ==
    /\ rows = {}
    /\ nextId = 1
    /\ run = [w \in {1, 2} |-> IdleRun]
    /\ up_calls = 0

\* batches of one persistable record
ConcBatches == {<<item>> : item \in GoodItems}

NextSyncConc ==
    \/ \E w \in DOMAIN run, B \in ConcBatches : UpsertStart(w, B)
    \/ \E w \in DOMAIN run : UpsertItem(w)
    \/ \E w \in DOMAIN run : UpsertCommit(w)
    \/ \E w \in DOMAIN run : UpsertExit(w)


\* ------------------------------------------------------------------------
\* Source Registry: manual_fetch, toggle_source, reset_source_errors,
\* get_source_health
\* ------------------------------------------------------------------------

SourceTypes == {"rss", "api"}
\* fetch_frequency: Field(360, ge=5, le=10080)
FreqMin == 5
FreqMax == 10080
FreqChoices == {f \in {5, 7} : FreqMin <= f /\ f <= FreqMax}

\* Optional[datetime]: Never when unset, At(t) when set to minute t
Never == <<>>
At(t) == <<t>>

\* the row create_source stores: the status fields at the column defaults
NewSource(type, freq, active) ==
    [source_type |-> type, is_active |-> active, fetch_frequency |-> freq,
     last_fetched_at |-> Never, last_success_at |-> Never, last_error |-> None,
     error_count |-> 0, items_fetched |-> 0]

\* What client.get(source.url) brings back.
\*   "timeout"             client.get raises (httpx.RequestError)
\*   "http"                raise_for_status raises (4xx, 5xx)
\*   otherwise a 2xx response whose body is a feed with n entries, a JSON
\*   list of n elements, another JSON value, or neither
Bodies ==
    [kind : {"feed", "jsonlist"}, n : 0..MaxItems]
      \cup [kind : {"jsonobject", "garbage"}, n : {0}]
FetchFailures == {"timeout", "http"}
Answers == Bodies \cup [kind : FetchFailures, n : {0}]

\* response.json() raises on a body that is not JSON
JsonFails(body) == body.kind \in {"feed", "garbage"}

\* the try block of manual_fetch fails
FetchRaises(type, out) ==
    \/ out.kind \in FetchFailures
    \/ out.kind \notin FetchFailures /\ type # "rss" /\ JsonFails(out)

\* str(e) of the exception the try block raised
ErrorText(type, out) ==
    IF out.kind \in FetchFailures THEN out.kind ELSE "invalid json"

\* items_count: len(feed.entries) for rss (feedparser finds no entry in a
\* body that is no feed); len(data) if isinstance(data, list) else 1
ItemsCount(type, body) ==
    IF type = "rss"
      THEN (IF body.kind = "feed" THEN body.n ELSE 0)
      ELSE (IF body.kind = "jsonlist" THEN body.n ELSE 1)

\* a success branch that leaves the error state as it was
OnSuccessKeepsErrors(src, t, count) ==
    [src EXCEPT !.last_fetched_at = At(t),
                !.last_success_at = At(t),
                !.items_fetched = src.items_fetched + count]

\* the success branch's writes on the loaded source object
OnSuccess(src, t, count) ==
    [src EXCEPT !.last_fetched_at = At(t),
                !.last_success_at = At(t),
                !.last_error = None,
                !.error_count = 0,
                !.items_fetched = src.items_fetched + count]

\* an except branch that also forgets the last success
OnFailureForgetsSuccess(src, t, text) ==
    [src EXCEPT !.last_fetched_at = At(t),
                !.last_success_at = Never,
                !.last_error = text,
                !.error_count = src.error_count + 1]

\* an except branch that records the error but does not count it
OnFailureNoCount(src, t, text) ==
    [src EXCEPT !.last_fetched_at = At(t), !.last_error = text]

\* the except branch's writes on the loaded source object
OnFailure(src, t, text) ==
    [src EXCEPT !.last_fetched_at = At(t),
                !.last_error = text,
                !.error_count = src.error_count + 1]

\* db.commit(): the UPDATE carries the attributes whose value differs from
\* the one the session loaded; the other columns of the row stay as stored.
CommitRow(stored, loaded, obj) ==
    [f \in DOMAIN stored |-> IF obj[f] # loaded[f] THEN obj[f] ELSE stored[f]]

IdleReq == [pc |-> "idle", id |-> 0, loaded |-> None, resp |-> None]

\* a classification whose error threshold is off by one
HealthStatusOffByOne(src, t) ==
    IF ~src.is_active THEN "inactive"
    ELSE IF src.error_count > 5 THEN "error"
    ELSE IF src.error_count > 0 THEN "warning"
    ELSE IF src.last_fetched_at # Never
            /\ (t - src.last_fetched_at[1]) * 60 > src.fetch_frequency * 60 * 2
      THEN "warning"
    ELSE "ok"

\* the classification of get_source_health
HealthStatus(src, t) ==
    IF ~src.is_active THEN "inactive"
    ELSE IF src.error_count >= 5 THEN "error"
    ELSE IF src.error_count > 0 THEN "warning"
    ELSE IF src.last_fetched_at # Never
            /\ (t - src.last_fetched_at[1]) * 60 > src.fetch_frequency * 60 * 2
      THEN "warning"
    ELSE "ok"

\* the registry after create_source has stored one source of the given
\* type and frequency (is_active at its default)
InitRegWith(types, freqs) ==
    /\ \E type \in types, freq \in freqs :
         sources = [id \in {1} |-> NewSource(type, freq, TRUE)]
    /\ req = [c \in {1, 2} |-> IdleReq]
    /\ mf_calls = 0
    /\ now = 0
    /\ health = [id \in {} |-> None]

InitReg == InitRegWith(SourceTypes, FreqChoices)

\* POST /{source_id}/fetch arrives: db.get, 404 when there is no such source,
\* else the request is sent and the handler awaits the answer.
ManualFetchStart(c, id) ==
    /\ req[c].pc \in {"idle", "done"}
    /\ mf_calls < MaxManualFetches
    /\ mf_calls' = mf_calls + 1
    /\ IF id \in DOMAIN sources
         THEN req' = [req EXCEPT ![c] =
                        [pc |-> "fetching", id |-> id, loaded |-> sources[id],
                         resp |-> None]]
         ELSE req' = [req EXCEPT ![c] =
                        [pc |-> "done", id |-> id, loaded |-> None,
                         resp |-> [code |-> 404, detail |-> "API source not found"]]]
    /\ UNCHANGED <<sources, now, health>>
    /\ UNCHANGED <<varsFetch, varsSync, varsAdmin, varsTask, varsSched, varsAll, varsTransform>>

\* the answer (or the failure) arrives and the handler runs to its end
ManualFetchFinish(c, out) ==
    /\ req[c].pc = "fetching"
    /\ LET id     == req[c].id
           loaded == req[c].loaded
       IN IF FetchRaises(loaded.source_type, out)
            THEN LET text == ErrorText(loaded.source_type, out)
                     obj  == OnFailure(loaded, now, text)
                 IN /\ sources' = [sources EXCEPT ![id] = CommitRow(@, loaded, obj)]
                    /\ req' = [req EXCEPT ![c] =
                                 [@ EXCEPT !.pc = "done", !.loaded = None,
                                           !.resp = [code |-> 500,
                                                     detail |-> <<"Fetch failed: ", text>>]]]
            ELSE LET count == ItemsCount(loaded.source_type, out)
                     obj   == OnSuccess(loaded, now, count)
                 IN /\ sources' = [sources EXCEPT ![id] = CommitRow(@, loaded, obj)]
                    /\ req' = [req EXCEPT ![c] =
                                 [@ EXCEPT !.pc = "done", !.loaded = None,
                                           !.resp = [code |-> 200,
                                                     message |-> "Fetch successful",
                                                     id |-> id,
                                                     items_fetched |-> count]]]
    /\ UNCHANGED <<mf_calls, now, health>>
    /\ UNCHANGED <<varsFetch, varsSync, varsAdmin, varsTask, varsSched, varsAll, varsTransform>>

\* The answer arrived and the success branch assigned the status fields, but
\* the database rejects a statement of log_audit's flush or of the commit.
\* The failed flush rolls the transaction back and leaves the session
\* unusable until rollback(), so the except branch, which works on the same
\* session, raises in its turn: nothing of the request is stored and the
\* caller gets the server's plain 500.
ManualFetchRecordFails(c, out) ==
    /\ req[c].pc = "fetching"
    /\ ~FetchRaises(req[c].loaded.source_type, out)
    /\ req' = [req EXCEPT ![c] =
                 [@ EXCEPT !.pc = "done", !.loaded = None,
                           !.resp = [code |-> 500,
                                     detail |-> <<"Internal Server Error">>]]]
    /\ UNCHANGED <<sources, mf_calls, now, health>>
    /\ UNCHANGED <<varsFetch, varsSync, varsAdmin, varsTask, varsSched, varsAll, varsTransform>>

\* PATCH /{source_id}/toggle
ToggleSource(id) ==
    /\ id \in DOMAIN sources
    /\ sources' = [sources EXCEPT ![id].is_active = ~sources[id].is_active]
    /\ UNCHANGED <<req, mf_calls, now, health>>
    /\ UNCHANGED <<varsFetch, varsSync, varsAdmin, varsTask, varsSched, varsAll, varsTransform>>

\* a reset that also forgets when the source was last fetched
ResetErrorsAndFetchTime(src) ==
    [src EXCEPT !.error_count = 0, !.last_error = None, !.last_fetched_at = Never]

\* source.error_count = 0; source.last_error = None
ResetErrors(src) == [src EXCEPT !.error_count = 0, !.last_error = None]

\* PATCH /{source_id}/reset-errors
ResetSourceErrors(id) ==
    /\ id \in DOMAIN sources
    /\ sources' = [sources EXCEPT ![id] = ResetErrors(@)]
    /\ UNCHANGED <<req, mf_calls, now, health>>
    /\ UNCHANGED <<varsFetch, varsSync, varsAdmin, varsTask, varsSched, varsAll, varsTransform>>

\* GET /source-health
GetSourceHealth ==
    /\ health' = [id \in DOMAIN sources |-> HealthStatus(sources[id], now)]
    /\ UNCHANGED <<sources, req, mf_calls, now>>
    /\ UNCHANGED <<varsFetch, varsSync, varsAdmin, varsTask, varsSched, varsAll, varsTransform>>

\* time passes
Tick ==
    /\ now + TickStep <= MaxNow
    /\ now' = now + TickStep
    /\ UNCHANGED <<sources, req, mf_calls, health>>
    /\ UNCHANGED <<varsFetch, varsSync, varsAdmin, varsTask, varsSched, varsAll, varsTransform>>

\* client c has no manual fetch open
NoOpenFetch(c) == req[c].pc # "fetching"

\* one admin client: a request is answered before the next one is sent, so
\* no other request arrives while a manual fetch is open; time passes
NextRegistry ==
    \/ \E id \in 1..MaxSourceId : ManualFetchStart(1, id)
    \/ \E out \in Answers : ManualFetchFinish(1, out)
    \/ \E id \in 1..MaxSourceId : NoOpenFetch(1) /\ ToggleSource(id)
    \/ \E id \in 1..MaxSourceId : NoOpenFetch(1) /\ ResetSourceErrors(id)
    \/ NoOpenFetch(1) /\ GetSourceHealth
    \/ Tick

\* two admin clients whose manual_fetch requests the server handles
\* concurrently (each handler is a coroutine that yields at its awaits)
NextRegistryConc ==
    \/ \E c \in DOMAIN req, id \in 1..MaxSourceId : ManualFetchStart(c, id)
    \/ \E c \in DOMAIN req, out \in Answers : ManualFetchFinish(c, out)
    \/ Tick

\* ------------------------------------------------------------------------
\* Source Registry: create_slug, create_source, update_source, delete_source
\* ------------------------------------------------------------------------

\* Strings are sequences of one-character strings.
DigitChars == <<"0", "1", "2", "3", "4", "5", "6", "7", "8", "9">>
LowerAlnum == {"a", "b"} \cup {DigitChars[i] : i \in DOMAIN DigitChars}

\* names an admin may give a source
Names == {<<"A">>, <<"_", "a", " ", "!">>, <<"a", " ", "B">>}
\* the name of the source the registry starts with
FirstName == <<"A">>

\* str.lower() on one character
Lower(c) == IF c = "A" THEN "a" ELSE IF c = "B" THEN "b" ELSE c

RECURSIVE DropWhile(_, _)
\* s without its longest prefix of characters of cls
DropWhile(s, cls) ==
    IF s # <<>> /\ Head(s) \in cls THEN DropWhile(Tail(s), cls) ELSE s

RECURSIVE Squash(_, _, _)
\* re.sub("[cls]+", rep, s): every maximal run of characters of cls becomes rep
Squash(s, cls, rep) ==
    IF s = <<>> THEN <<>>
    ELSE IF Head(s) \in cls
      THEN <<rep>> \o Squash(DropWhile(Tail(s), cls), cls, rep)
      ELSE <<Head(s)>> \o Squash(Tail(s), cls, rep)

RECURSIVE Reverse(_)
Reverse(s) == IF s = <<>> THEN <<>> ELSE Append(Reverse(Tail(s)), Head(s))

\* str.strip(ch)
Strip(s, ch) == Reverse(DropWhile(Reverse(DropWhile(s, {ch})), {ch}))

\* String(100) of the slug column and the [:100] of create_slug
SlugMaxLen == 100

\* s[:n]
Prefix(s, n) == SubSeq(s, 1, Min2(Len(s), n))

\* create_slug(name)
CreateSlug(name) ==
    LET lowered == [i \in DOMAIN name |-> Lower(name[i])]
        kept    == SelectSeq(lowered, LAMBDA c : c \in LowerAlnum \cup {" ", "-"})
        dashed  == Squash(kept, {" ", "_"}, "-")
        single  == Squash(dashed, {"-"}, "-")
    IN Prefix(Strip(single, "-"), SlugMaxLen)

RECURSIVE Str(_)
\* str(n) for n >= 0
Str(n) ==
    IF n < 10 THEN <<DigitChars[n + 1]>>
    ELSE Str(n \div 10) \o <<DigitChars[(n % 10) + 1]>>

\* value LIKE 'pattern%'
Like(value, pattern) ==
    Len(pattern) <= Len(value) /\ SubSeq(value, 1, Len(pattern)) = pattern

\* the slug create_source gives a new source
NewSlug(name, table) ==
    LET slug  == CreateSlug(name)
        count == Cardinality({id \in DOMAIN table : Like(table[id], slug)})
    IN IF \E id \in DOMAIN table : table[id] = slug
         THEN slug \o <<"-">> \o Str(count + 1)
         ELSE slug

\* a storage that accepts every slug
SlugAlwaysAccepted(slug, id, table) == FALSE

\* the database rejects the row: unique=True and String(100) of the column
SlugRejected(slug, id, table) ==
    \/ \E other \in DOMAIN table \ {id} : table[other] = slug
    \/ Len(slug) > SlugMaxLen

\* Optional fields of a request body
Unset == <<>>
Given(v) == <<v>>

IdleResp ==
    [op |-> "none", code |-> 0, id |-> 0, success |-> FALSE,
     message |-> <<>>, samples |-> 0, error |-> <<>>]

Answer(op, code, id) == [IdleResp EXCEPT !.op = op, !.code = code, !.id = id]

\* f with x mapped to v
Put(f, x, v) == [y \in DOMAIN f \cup {x} |-> IF y = x THEN v ELSE f[y]]
\* f without x
Drop(f, x) == [y \in DOMAIN f \ {x} |-> f[y]]

\* the registry holds the one source InitRegWith stores
InitAdmin ==
    /\ slugs = [id \in {1} |-> CreateSlug(FirstName)]
    /\ srcSeq = 2
    /\ admin_resp = IdleResp

\* POST /sources.  The INSERT takes an id from the sequence whether or not
\* the row is accepted; a rejected row is an unhandled IntegrityError (500).
CreateSource(name, type, freq, active) ==
    /\ srcSeq <= MaxSrcSeq
    /\ LET slug == NewSlug(name, slugs)
           id   == srcSeq
       IN /\ srcSeq' = srcSeq + 1
          /\ IF SlugRejected(slug, id, slugs)
               THEN /\ UNCHANGED <<sources, slugs>>
                    /\ admin_resp' = Answer("create", 500, id)
               ELSE /\ sources' = Put(sources, id, NewSource(type, freq, active))
                    /\ slugs' = Put(slugs, id, slug)
                    /\ admin_resp' = Answer("create", 200, id)
    /\ UNCHANGED <<req, mf_calls, now, health>>
    /\ UNCHANGED <<varsFetch, varsSync, varsTask, varsSched, varsAll, varsTransform>>

UpdateBodies ==
    [name : {Unset} \cup {Given(n) : n \in Names},
     is_active : {Unset},
     fetch_frequency : {Unset}]

\* bodies that pause a source or change its frequency, with or without a
\* new name
LifecycleBodies ==
    [name : {Unset, Given(FirstName)},
     is_active : {Unset, Given(FALSE)},
     fetch_frequency : {Unset, Given(FreqMax)}]

\* an update that also clears the error state
ApplyUpdateClearsErrors(src, data) ==
    [src EXCEPT
       !.is_active = IF data.is_active # Unset THEN data.is_active[1] ELSE @,
       !.fetch_frequency =
           IF data.fetch_frequency # Unset THEN data.fetch_frequency[1] ELSE @,
       !.error_count = 0,
       !.last_error = None]

\* the assignments of update_source on the loaded source
ApplyUpdate(src, data) ==
    [src EXCEPT
       !.is_active = IF data.is_active # Unset THEN data.is_active[1] ELSE @,
       !.fetch_frequency =
           IF data.fetch_frequency # Unset THEN data.fetch_frequency[1] ELSE @]

\* PUT /sources/{source_id}
UpdateSource(id, data) ==
    /\ IF id \notin DOMAIN sources
         THEN /\ UNCHANGED <<sources, slugs>>
              /\ admin_resp' = Answer("update", 404, id)
         ELSE LET slug == IF data.name # Unset
                            THEN CreateSlug(data.name[1]) ELSE slugs[id]
              IN IF SlugRejected(slug, id, slugs)
                   THEN /\ UNCHANGED <<sources, slugs>>
                        /\ admin_resp' = Answer("update", 500, id)
                   ELSE /\ sources' = [sources EXCEPT ![id] = ApplyUpdate(@, data)]
                        /\ slugs' = [slugs EXCEPT ![id] = slug]
                        /\ admin_resp' = Answer("update", 200, id)
    /\ UNCHANGED <<srcSeq, req, mf_calls, now, health>>
    /\ UNCHANGED <<varsFetch, varsSync, varsTask, varsSched, varsAll, varsTransform>>

\* DELETE /sources/{source_id}
DeleteSource(id) ==
    /\ IF id \notin DOMAIN sources
         THEN /\ UNCHANGED <<sources, slugs>>
              /\ admin_resp' = Answer("delete", 404, id)
         ELSE /\ sources' = Drop(sources, id)
              /\ slugs' = Drop(slugs, id)
              /\ admin_resp' = Answer("delete", 200, id)
    /\ UNCHANGED <<srcSeq, req, mf_calls, now, health>>
    /\ UNCHANGED <<varsFetch, varsSync, varsTask, varsSched, varsAll, varsTransform>>

\* one admin client that edits, pauses and fetches the sources of the
\* registry, a request being answered before the next one is sent
NextLifecycle ==
    \/ \E id \in 1..MaxSourceId : ManualFetchStart(1, id)
    \/ \E out \in Answers : ManualFetchFinish(1, out)
    \/ \E out \in Answers : ManualFetchRecordFails(1, out)
    \/ \E id \in 1..MaxSourceId, data \in LifecycleBodies :
          NoOpenFetch(1) /\ UpdateSource(id, data)
    \/ \E id \in 1..MaxSourceId : NoOpenFetch(1) /\ ToggleSource(id)
    \/ \E id \in 1..MaxSourceId : NoOpenFetch(1) /\ ResetSourceErrors(id)
    \/ Tick

\* ------------------------------------------------------------------------
\* Test Harness: test_source
\* ------------------------------------------------------------------------

TestTypes == {"rss", "api", "scrape"}

\* What client.get(test_request.url) brings back.
\*   "timeout"   httpx.TimeoutException
\*   "connect"   another httpx.RequestError
\*   "http"      raise_for_status raises HTTPStatusError with the status code
\*   otherwise a 2xx response whose body is
\*     "feed"       a well-formed feed with n entries
\*     "badfeed"    a malformed feed
\*     "jsonlist"   a JSON list of n elements
\*     "jsonitems"  a JSON object whose "items" is a list of n elements
\*     "jsondict"   another JSON object
\*     "jsonscalar" a JSON value that is neither a list nor an object
\*     "garbage"    neither a feed nor JSON
TestAnswers ==
    [kind : {"timeout", "connect"}, n : {0}, code : {0}]
      \cup [kind : {"http"}, n : {0}, code : {404, 503}]
      \cup [kind : {"feed", "jsonlist", "jsonitems"}, n : 0..MaxTestItems, code : {200}]
      \cup [kind : {"badfeed", "jsondict", "jsonscalar", "garbage"}, n : {0}, code : {200}]

\* feed.bozo and feed.bozo_exception: feedparser could not parse the body
Bozo(out) == out.kind # "feed"

\* response.json() raises
NotJson(out) == out.kind \in {"feed", "badfeed", "garbage"}

SampleLimit == 3

\* a sample that is the whole list
SampleAll(n) == n

\* len(entries[:3])
Sample(n) == Min2(n, SampleLimit)

Failed(message, error) ==
    [IdleResp EXCEPT !.op = "test", !.code = 200, !.success = FALSE,
                     !.message = message, !.error = error]

Passed(message, samples) ==
    [IdleResp EXCEPT !.op = "test", !.code = 200, !.success = TRUE,
                     !.message = message, !.samples = samples]

\* a harness with one message for every failure
TestResponseOneMessage(type, out) ==
    IF out.kind \in {"timeout", "http", "connect"} \/ (type = "rss" /\ Bozo(out))
      THEN Failed(<<"Connection failed">>, <<"error">>)
      ELSE Passed(<<"URL accessible but response is not JSON.">>, 1)

\* the APISourceTestResponse of test_source
TestResponse(type, out) ==
    IF out.kind = "timeout"
      THEN Failed(<<"Request timed out">>, <<"Connection timed out after 30 seconds">>)
    ELSE IF out.kind = "http"
      THEN Failed(<<"HTTP error: ", out.code>>, <<"HTTPStatusError", out.code>>)
    ELSE IF out.kind = "connect"
      THEN Failed(<<"Connection failed">>, <<"ConnectError">>)
    ELSE IF type = "rss"
      THEN IF Bozo(out)
             THEN Failed(<<"Invalid RSS feed">>, <<"bozo_exception">>)
             ELSE Passed(<<"RSS feed valid. Found ", out.n, " items.">>, Sample(out.n))
    ELSE IF NotJson(out)
      THEN Passed(<<"URL accessible but response is not JSON.">>, 1)
    ELSE IF out.kind \in {"jsonlist", "jsonitems"}
      THEN Passed(<<"API responded successfully. Found ", out.n, " items.">>,
                  Sample(out.n))
    ELSE IF out.kind = "jsondict"
      THEN Passed(<<"API responded successfully. Found ", 1, " items.">>, 1)
    \* neither list nor dict: count is unbound at the return, the NameError is
    \* caught by the inner except
    ELSE Passed(<<"URL accessible but response is not JSON.">>, 1)

\* POST /sources/test: the handler takes no database session
TestSource(type, out) ==
    /\ admin_resp' = TestResponse(type, out)
    /\ UNCHANGED <<slugs, srcSeq>>
    /\ UNCHANGED <<varsFetch, varsSync, varsReg, varsTask, varsSched, varsAll, varsTransform>>

\* one admin client working on the registry
NextAdmin ==
    \/ \E name \in Names, type \in {"rss"}, freq \in {FreqMin}, active \in {TRUE} :
          CreateSource(name, type, freq, active)
    \/ \E id \in 1..MaxSrcSeq, data \in UpdateBodies : UpdateSource(id, data)
    \/ \E id \in 1..MaxSrcSeq : DeleteSource(id)

\* an admin tries source definitions out while the registry is in use
NextTest ==
    \/ \E type \in TestTypes, out \in TestAnswers : TestSource(type, out)
    \/ \E id \in 1..MaxSourceId : ToggleSource(id)
    \/ Tick

\* ------------------------------------------------------------------------
\* Collection task: collect_hackernews = HackerNewsCollector().run(), then
\* upsert_items; BaseCollector.run = collect, transform, finally close
\* ------------------------------------------------------------------------

\* "hackernews": collect() wraps its fetch_url call and the parsing of the
\*   answer in try/except Exception and returns [] on any failure (the
\*   per-item fetches of _get_item do the same and only shorten the list).
\* "subclass": a collector whose collect() lets the exception through;
\*   BaseCollector declares collect() abstract and run() handles that case.
Collectors == {"hackernews", "subclass"}

\* what collect() handed back: how the fetch went and how many raw items
NoRaw == [fetch |-> "none", n |-> 0]
Raw(fetch, n) == [fetch |-> fetch, n |-> n]

\* the dict a task returns: its keys and their values
NoResult == [keys |-> {}, collected |-> 0, inserted |-> 0, error |-> ""]
Collected(c, i) ==
    [keys |-> {"collected", "inserted"}, collected |-> c, inserted |-> i, error |-> ""]
Errored(e) ==
    [keys |-> {"error"}, collected |-> 0, inserted |-> 0, error |-> e]

\* records transform() may produce
TaskItems ==
    {[external_id |-> "e1", title |-> "a"],
     [external_id |-> None, title |-> "a"],
     [external_id |-> "e2", title |-> TooLong],
     [external_id |-> "e2", title |-> "a", bogus |-> "x"]}

\* transform() yields at most one record per raw item
TaskBatches(n) == UNION {[1..k -> TaskItems] : k \in 0..n}

\* a close() that leaves the client as it is
CloseLeavesOpen(c) == c

\* close(): aclose() when there is a client and it is not closed
Close(c) == IF c = "open" THEN "closed" ELSE c

RECURSIVE UpsertLoop(_, _, _)
\* the for loop of upsert_items from the session state s on
UpsertLoop(s, table, nid) ==
    IF s.i > Len(s.batch) THEN [s |-> s, nid |-> nid]
    ELSE LET p == ProcessItem(s, table, nid)
         IN UpsertLoop(p.s, table, nid + p.used)

\* one whole call of upsert_items(model, B): the table and the id sequence
\* it leaves, whether commit raised, and the count it returns
UpsertItems(B, table, nid) ==
    IF B = <<>>
      THEN [rows |-> table, nextId |-> nid, raised |-> FALSE, inserted |-> 0]
      ELSE LET l == UpsertLoop([IdleRun EXCEPT !.st = "running", !.batch = B,
                                               !.rows0 = table], table, nid)
               s == IF l.s.tx = "active" THEN Flush(l.s) ELSE l.s
           IN IF s.tx = "active"
                THEN [rows |-> Overlay(table, s.flushed), nextId |-> l.nid,
                      raised |-> FALSE, inserted |-> s.inserted]
                ELSE [rows |-> table, nextId |-> l.nid,
                      raised |-> TRUE, inserted |-> s.inserted]

\* a worker starts the task: the collector object is built (no client yet)
\* and run() is entered
TaskStart(kind) ==
    /\ t_pc = "idle"
    /\ t_runs < MaxTaskRuns
    /\ t_runs' = t_runs + 1
    /\ t_pc' = "collect"
    /\ t_kind' = kind
    /\ t_raw' = NoRaw
    /\ t_data' = <<>>
    /\ t_exc' = None
    /\ t_result' = NoResult
    /\ fc_pc' = "idle" /\ fc_log' = <<>> /\ fc_waits' = <<>> /\ fc_result' = None
    /\ client' = "none"
    /\ UNCHANGED fc_calls
    /\ UNCHANGED <<varsSync, varsReg, varsAdmin, varsSched, varsAll, varsTransform>>

\* collect() calls fetch_url
TaskFetch ==
    /\ t_pc = "collect"
    /\ fc_pc = "idle"
    /\ FetchUrl

\* fetch_url has returned or raised and collect() ends: with the parsed
\* items, with [] after a swallowed failure, or with the exception
TaskCollected(parsed, n) ==
    /\ t_pc = "collect"
    /\ fc_pc \in {"returned", "raised"}
    /\ LET fetch == IF fc_pc = "raised" THEN "failed"
                    ELSE IF parsed THEN "ok" ELSE "badjson"
       IN IF fetch = "ok"
            THEN /\ t_raw' = Raw("ok", n)
                 /\ t_pc' = "transform"
                 /\ UNCHANGED t_exc
            ELSE /\ n = 0
                 /\ t_raw' = Raw(fetch, 0)
                 /\ IF t_kind = "hackernews"
                      THEN t_pc' = "transform" /\ UNCHANGED t_exc
                      ELSE t_pc' = "finally" /\ t_exc' = fetch
    /\ UNCHANGED <<t_kind, t_data, t_result, t_runs>>
    /\ UNCHANGED <<varsFetch, varsSync, varsReg, varsAdmin, varsSched, varsAll, varsTransform>>

\* transform(raw_data) returns the records or raises on a raw item
TaskTransform(raises, B) ==
    /\ t_pc = "transform"
    /\ IF raises
         THEN /\ t_raw.n > 0
              /\ B = <<>>
              /\ t_exc' = "transform"
              /\ UNCHANGED t_data
         ELSE /\ B \in TaskBatches(t_raw.n)
              /\ t_data' = B
              /\ UNCHANGED t_exc
    /\ t_pc' = "finally"
    /\ UNCHANGED <<t_kind, t_raw, t_result, t_runs>>
    /\ UNCHANGED <<varsFetch, varsSync, varsReg, varsAdmin, varsSched, varsAll, varsTransform>>

\* finally: await self.close(); run() returns or re-raises, and on an
\* exception the task's except returns {"error": str(e)}
TaskFinally ==
    /\ t_pc = "finally"
    /\ client' = Close(client)
    /\ IF t_exc = None
         THEN t_pc' = "upsert" /\ UNCHANGED t_result
         ELSE t_pc' = "done" /\ t_result' = Errored(t_exc)
    /\ UNCHANGED <<fc_pc, fc_log, fc_waits, fc_result, fc_calls>>
    /\ UNCHANGED <<t_kind, t_raw, t_data, t_exc, t_runs>>
    /\ UNCHANGED <<varsSync, varsReg, varsAdmin, varsSched, varsAll, varsTransform>>

\* inserted = await upsert_items(model, data); return {"collected", "inserted"},
\* or {"error"} when upsert_items raised
TaskUpsert ==
    /\ t_pc = "upsert"
    /\ LET u == UpsertItems(t_data, rows, nextId)
       IN /\ rows' = u.rows
          /\ nextId' = u.nextId
          /\ t_result' = IF u.raised THEN Errored("commit")
                         ELSE Collected(Len(t_data), u.inserted)
    /\ t_pc' = "done"
    /\ UNCHANGED <<run, up_calls>>
    /\ UNCHANGED <<t_kind, t_raw, t_data, t_exc, t_runs>>
    /\ UNCHANGED <<varsFetch, varsReg, varsAdmin, varsSched, varsAll, varsTransform>>

\* the task has returned its dict; the worker is free again
TaskExit ==
    /\ t_pc = "done"
    /\ t_pc' = "idle"
    /\ UNCHANGED <<t_kind, t_raw, t_data, t_exc, t_result, t_runs>>
    /\ UNCHANGED <<varsFetch, varsSync, varsReg, varsAdmin, varsSched, varsAll, varsTransform>>

NextTask ==
    \/ \E kind \in Collectors : TaskStart(kind)
    \/ TaskFetch
    \/ \E o \in Outcomes : t_pc = "collect" /\ FetchAttempt(o)
    \/ t_pc = "collect" /\ FetchSleep
    \/ \E parsed \in BOOLEAN, n \in 0..MaxRaw : TaskCollected(parsed, n)
    \/ \E raises \in BOOLEAN, B \in TaskBatches(MaxRaw) : TaskTransform(raises, B)
    \/ TaskFinally
    \/ TaskUpsert
    \/ TaskExit

\* ------------------------------------------------------------------------
\* On-demand collection: POST /hackernews/collect
\* ------------------------------------------------------------------------

\* The loop of the endpoint: the statements of upsert_items' loop without
\* the try/except around them, so the first exception leaves the loop.
RECURSIVE EndpointLoop(_, _, _)
EndpointLoop(s, table, nid) ==
    IF s.i > Len(s.batch) THEN [s |-> s, nid |-> nid, raised |-> FALSE]
    ELSE LET p == ProcessItem(s, table, nid)
         IN IF p.s.skipped > s.skipped
              THEN [s |-> p.s, nid |-> nid + p.used, raised |-> TRUE]
              ELSE EndpointLoop(p.s, table, nid + p.used)

\* the loop and the commit after it: the table and the id sequence they
\* leave, and whether an exception reached the endpoint's except clause
EndpointStoreItems(B, table, nid) ==
    LET l == EndpointLoop([IdleRun EXCEPT !.st = "running", !.batch = B,
                                          !.rows0 = table], table, nid)
        s == IF ~l.raised /\ l.s.tx = "active" THEN Flush(l.s) ELSE l.s
    IN IF ~l.raised /\ s.tx = "active"
         THEN [rows |-> Overlay(table, s.flushed), nextId |-> l.nid,
               raised |-> FALSE, inserted |-> s.inserted]
         ELSE [rows |-> table, nextId |-> l.nid,
               raised |-> TRUE, inserted |-> s.inserted]

\* the request arrives: collector = HackerNewsCollector(), and
\* collector.collect() is awaited
EndpointStart ==
    /\ t_pc = "idle"
    /\ t_runs < MaxTaskRuns
    /\ t_runs' = t_runs + 1
    /\ t_pc' = "collect"
    /\ t_kind' = "endpoint"
    /\ t_raw' = NoRaw
    /\ t_data' = <<>>
    /\ t_exc' = None
    /\ t_result' = NoResult
    /\ fc_pc' = "idle" /\ fc_log' = <<>> /\ fc_waits' = <<>> /\ fc_result' = None
    /\ client' = "none"
    /\ UNCHANGED fc_calls
    /\ UNCHANGED <<varsSync, varsReg, varsAdmin, varsSched, varsAll, varsTransform>>

\* collect() ends, with [] after a failure it swallowed; the endpoint
\* answers at once when there is no raw item
EndpointCollected(parsed, n) ==
    /\ t_pc = "collect"
    /\ fc_pc \in {"returned", "raised"}
    /\ LET fetch == IF fc_pc = "raised" THEN "failed"
                    ELSE IF parsed THEN "ok" ELSE "badjson"
       IN /\ fetch # "ok" => n = 0
          /\ t_raw' = Raw(fetch, n)
          /\ IF n = 0
               THEN t_pc' = "done" /\ t_result' = Collected(0, 0)
               ELSE t_pc' = "transform" /\ UNCHANGED t_result
    /\ UNCHANGED <<t_kind, t_data, t_exc, t_runs>>
    /\ UNCHANGED <<varsFetch, varsSync, varsReg, varsAdmin, varsSched, varsAll, varsTransform>>

\* collector.transform(raw_data) returns the records, or raises and the
\* except clause answers 500
EndpointTransform(raises, B) ==
    /\ t_pc = "transform"
    /\ IF raises
         THEN /\ B = <<>>
              /\ t_exc' = "transform"
              /\ t_result' = Errored("transform")
              /\ t_pc' = "done"
              /\ UNCHANGED t_data
         ELSE /\ B \in TaskBatches(t_raw.n)
              /\ t_data' = B
              /\ t_pc' = "store"
              /\ UNCHANGED <<t_exc, t_result>>
    /\ UNCHANGED <<t_kind, t_raw, t_runs>>
    /\ UNCHANGED <<varsFetch, varsSync, varsReg, varsAdmin, varsSched, varsAll, varsTransform>>

\* the endpoint's own session, loop and commit, and its answer
EndpointStore ==
    /\ t_pc = "store"
    /\ LET u == EndpointStoreItems(t_data, rows, nextId)
       IN /\ rows' = u.rows
          /\ nextId' = u.nextId
          /\ t_result' = IF u.raised THEN Errored("store")
                         ELSE Collected(Len(t_data), u.inserted)
          /\ t_exc' = IF u.raised THEN "store" ELSE t_exc
    /\ t_pc' = "done"
    /\ UNCHANGED <<run, up_calls>>
    /\ UNCHANGED <<t_kind, t_raw, t_data, t_runs>>
    /\ UNCHANGED <<varsFetch, varsReg, varsAdmin, varsSched, varsAll, varsTransform>>

\* the requests to the endpoint, one after the other
NextEndpoint ==
    \/ EndpointStart
    \/ TaskFetch
    \/ \E o \in Outcomes : t_pc = "collect" /\ FetchAttempt(o)
    \/ t_pc = "collect" /\ FetchSleep
    \/ \E parsed \in BOOLEAN, n \in 0..MaxRaw : EndpointCollected(parsed, n)
    \/ \E raises \in BOOLEAN, B \in TaskBatches(MaxRaw) : EndpointTransform(raises, B)
    \/ EndpointStore
    \/ TaskExit

\* ------------------------------------------------------------------------
\* The tasks that drive several collectors: collect_jobs, collect_all
\* ------------------------------------------------------------------------

\* the tasks collect_all calls, in its order
AllTasks ==
    <<"products", "news", "hackernews", "research", "github", "jobs",
      "youtube", "mcp">>

\* what a task with one collector returns: {"error"} when run() or
\* upsert_items raised, else {"collected", "inserted"}
TaskResults == {Errored("run"), Collected(MaxCollected, MaxCollected)}

\* how driving one collector inside collect_jobs goes: run() raises, or it
\* returns n records and upsert_items raises or returns the inserted count k
JobsOutcomes ==
    [run : {"raised"}, n : {0}, upsert : {"none"}, k : {0}]
      \cup [run : {"ok"}, n : {MaxCollected}, upsert : {"raised"}, k : {0}]
      \cup [run : {"ok"}, n : {MaxCollected}, upsert : {"ok"}, k : {0, MaxCollected}]

\* the try block of one collector was left by an exception
JobsFailed(out) == out.run = "raised" \/ out.upsert = "raised"

NoTotals == [collected |-> 0, inserted |-> 0]

\* totals that count the records of a collector before they are stored
AddTotalsBeforeUpsert(tot, out) ==
    IF out.run = "raised" THEN tot
    ELSE [collected |-> tot.collected + out.n,
          inserted  |-> IF JobsFailed(out) THEN tot.inserted
                        ELSE tot.inserted + out.k]

\* total_collected += len(data); total_inserted += inserted: the last two
\* statements of the try block, not reached when an earlier one raised
AddTotals(tot, out) ==
    IF JobsFailed(out) THEN tot
    ELSE [collected |-> tot.collected + out.n, inserted |-> tot.inserted + out.k]

InitAll ==
    /\ ca_pc = 0
    /\ ca_results = <<>>
    /\ cj_pc = "idle"
    /\ cj_tot = NoTotals
    /\ cj_log = <<>>
    /\ ca_runs = 0

\* collect_all is started: results = {}
CollectAllStart ==
    /\ ca_pc \in {0, Len(AllTasks) + 1}
    /\ cj_pc \in {"idle", "done"}
    /\ ca_runs < MaxAllRuns
    /\ ca_runs' = ca_runs + 1
    /\ ca_pc' = 1
    /\ ca_results' = <<>>
    /\ cj_pc' = "idle"
    /\ UNCHANGED <<cj_tot, cj_log>>
    /\ UNCHANGED <<varsFetch, varsSync, varsReg, varsAdmin, varsTask, varsSched, varsTransform>>

\* results[name] = collect_<name>(): a task with one collector, whose own
\* except clause turns a failure into the dict it returns
CollectAllCall(res) ==
    /\ ca_pc \in DOMAIN AllTasks
    /\ AllTasks[ca_pc] # "jobs"
    /\ ca_results' = Put(ca_results, AllTasks[ca_pc], res)
    /\ ca_pc' = ca_pc + 1
    /\ UNCHANGED <<cj_pc, cj_tot, cj_log, ca_runs>>
    /\ UNCHANGED <<varsFetch, varsSync, varsReg, varsAdmin, varsTask, varsSched, varsTransform>>

\* collect_all is at results["jobs"] = collect_jobs()
AtJobs == ca_pc \in DOMAIN AllTasks /\ AllTasks[ca_pc] = "jobs"

\* collect_jobs is started, by collect_all or as a task of its own
CollectJobsStart ==
    /\ cj_pc \in {"idle", "done"}
    /\ \/ AtJobs /\ cj_pc = "idle" /\ UNCHANGED ca_runs
       \/ /\ ca_pc \in {0, Len(AllTasks) + 1}
          /\ ca_runs < MaxAllRuns
          /\ ca_runs' = ca_runs + 1
    /\ cj_pc' = "adzuna"
    /\ cj_tot' = NoTotals
    /\ cj_log' = <<>>
    /\ UNCHANGED <<ca_pc, ca_results>>
    /\ UNCHANGED <<varsFetch, varsSync, varsReg, varsAdmin, varsTask, varsSched, varsTransform>>

\* one of the two try blocks of collect_jobs; its except clause only logs
CollectJobsCollector(out) ==
    /\ cj_pc \in {"adzuna", "muse"}
    /\ cj_tot' = AddTotals(cj_tot, out)
    /\ cj_log' = Append(cj_log, [collector |-> cj_pc, out |-> out])
    /\ cj_pc' = IF cj_pc = "adzuna" THEN "muse" ELSE "return"
    /\ UNCHANGED <<ca_pc, ca_results, ca_runs>>
    /\ UNCHANGED <<varsFetch, varsSync, varsReg, varsAdmin, varsTask, varsSched, varsTransform>>

\* return {"collected": total_collected, "inserted": total_inserted}
CollectJobsReturn ==
    /\ cj_pc = "return"
    /\ cj_pc' = "done"
    /\ IF AtJobs
         THEN /\ ca_results' = Put(ca_results, "jobs",
                                   Collected(cj_tot.collected, cj_tot.inserted))
              /\ ca_pc' = ca_pc + 1
         ELSE UNCHANGED <<ca_pc, ca_results>>
    /\ UNCHANGED <<cj_tot, cj_log, ca_runs>>
    /\ UNCHANGED <<varsFetch, varsSync, varsReg, varsAdmin, varsTask, varsSched, varsTransform>>

NextAll ==
    \/ CollectAllStart
    \/ \E res \in TaskResults : CollectAllCall(res)
    \/ CollectJobsStart
    \/ \E out \in JobsOutcomes : CollectJobsCollector(out)
    \/ CollectJobsReturn

\* ------------------------------------------------------------------------
\* transform() of ProductHuntCollector and of AdzunaCollector
\* ------------------------------------------------------------------------

\* The keys of a raw item that transform() dereferences.  A raw item is a
\* JSON object: a key is missing, or null (None), or has a value ("v": a
\* string for name, title and description, an object for the others).
RawFields(kind) ==
    IF kind = "product_hunt" THEN {"name", "topics", "thumbnail"}
    ELSE {"title", "description", "location", "company"}

RawItems(kind) == UNION {[D -> {None, "v"}] : D \in SUBSET RawFields(kind)}

TransformKinds == {"product_hunt", "adzuna"}

\* item.get(key, default)
RawGet(item, key, default) == IF key \in DOMAIN item THEN item[key] ELSE default

\* the empty dict given as default
EmptyDict == "{}"

\* calling a method (lower, get) on the value raises AttributeError
NoMethods(value) == value = None

\* ProductHuntCollector.transform raises on the item: _create_slug calls
\* name.lower(), and item.get("topics", {}).get("edges", []) is evaluated
ProductHuntRaises(item) ==
    \/ NoMethods(RawGet(item, "name", ""))
    \/ NoMethods(RawGet(item, "topics", EmptyDict))

\* the product it returns otherwise
ProductHuntRecord(item) ==
    [name |-> RawGet(item, "name", None),
     slug |-> RawGet(item, "name", ""),
     tags |-> IF RawGet(item, "topics", EmptyDict) = "v" THEN "v" ELSE "",
     thumbnail_url |-> IF RawGet(item, "thumbnail", None) = "v" THEN "v" ELSE None]

\* AdzunaCollector.transform raises on the item: location.get, the
\* title.lower() of _create_slug and of is_remote, company.get and
\* description.lower()
AdzunaRaises(item) ==
    \/ NoMethods(RawGet(item, "location", EmptyDict))
    \/ NoMethods(RawGet(item, "title", ""))
    \/ NoMethods(RawGet(item, "company", EmptyDict))
    \/ NoMethods(RawGet(item, "description", ""))

\* the job it returns otherwise
AdzunaRecord(item) ==
    [title |-> RawGet(item, "title", ""),
     description |-> RawGet(item, "description", None),
     company_name |-> IF RawGet(item, "company", EmptyDict) = "v"
                        THEN "v" ELSE "Unknown",
     location |-> IF RawGet(item, "location", EmptyDict) = "v" THEN "v" ELSE None,
     city |-> IF RawGet(item, "location", EmptyDict) = "v" THEN "v" ELSE ""]

TransformRaises(kind, item) ==
    IF kind = "product_hunt" THEN ProductHuntRaises(item) ELSE AdzunaRaises(item)

NoOutput == [raised |-> FALSE, records |-> <<>>]

\* transform([item]): the list of records, or the exception
TransformOutput(kind, item) ==
    IF TransformRaises(kind, item)
      THEN [raised |-> TRUE, records |-> <<>>]
      ELSE [raised |-> FALSE,
            records |-> IF kind = "product_hunt"
                          THEN <<ProductHuntRecord(item)>>
                          ELSE <<AdzunaRecord(item)>>]

InitTransform ==
    /\ tf_kind = "none"
    /\ tf_in = <<>>
    /\ tf_out = NoOutput

\* await collector.transform([item]); transform() touches neither the
\* client nor storage
Transform(kind, item) ==
    /\ tf_kind' = kind
    /\ tf_in' = item
    /\ tf_out' = TransformOutput(kind, item)
    /\ UNCHANGED <<varsFetch, varsSync, varsReg, varsAdmin, varsTask, varsSched, varsAll>>

NextTransform ==
    \E kind \in TransformKinds : \E item \in RawItems(kind) : Transform(kind, item)

\* ------------------------------------------------------------------------
\* Scheduler: Celery beat with the static beat_schedule, and the worker pool
\* ------------------------------------------------------------------------

\* "collect-hackernews-every-15-minutes": crontab(minute="*/15")
BeatPeriod == 15
\* worker_concurrency=4
WorkerConcurrency == 4

\* The crontab matches: beat sends the task message.  The schedule is a
\* constant of the program; beat reads neither the api_sources table nor
\* the state of earlier instances of the task.
BeatFire ==
    /\ now + BeatPeriod <= MaxBeatNow
    /\ now' = now + BeatPeriod
    /\ queued' = queued + 1
    /\ UNCHANGED running
    /\ UNCHANGED <<sources, req, mf_calls, health>>
    /\ UNCHANGED <<varsFetch, varsSync, varsAdmin, varsTask, varsAll, varsTransform>>

\* a free worker process takes a message and starts the task
WorkerTake ==
    /\ queued > 0
    /\ running < WorkerConcurrency
    /\ queued' = queued - 1
    /\ running' = running + 1
    /\ UNCHANGED <<varsFetch, varsSync, varsReg, varsAdmin, varsTask, varsAll, varsTransform>>

\* a task instance returns; the tasks write nothing to api_sources
WorkerDone ==
    /\ running > 0
    /\ running' = running - 1
    /\ UNCHANGED queued
    /\ UNCHANGED <<varsFetch, varsSync, varsReg, varsAdmin, varsTask, varsAll, varsTransform>>

\* beat and the workers, while an admin switches sources on and off
NextSched ==
    \/ BeatFire
    \/ WorkerTake
    \/ WorkerDone
    \/ \E id \in 1..MaxSourceId : ToggleSource(id)

\* ------------------------------------------------------------------------
\* Specifications
\* ------------------------------------------------------------------------
InitTask ==
    /\ t_pc = "idle"
    /\ t_kind = None
    /\ t_raw = NoRaw
    /\ t_data = <<>>
    /\ t_exc = None
    /\ t_result = NoResult
    /\ t_runs = 0

InitSched ==
    /\ queued = 0
    /\ running = 0

InitRest ==
    /\ InitFetch /\ InitSync /\ InitAdmin /\ InitTask /\ InitSched /\ InitAll
    /\ InitTransform
Init == InitRest /\ InitReg
\* the registry plays no part under the first two specifications
InitOneSource == InitRest /\ InitRegWith({"rss"}, {FreqMin})

\* as InitOneSource, with two calls of upsert_items able to run
InitTwoRuns ==
    /\ InitFetch /\ InitSyncConc /\ InitAdmin /\ InitTask /\ InitSched /\ InitAll
    /\ InitTransform
    /\ InitRegWith({"rss"}, {FreqMin})

SpecFetch == InitOneSource /\ [][NextFetch]_vars
SpecSync == InitOneSource /\ [][NextSync]_vars
SpecRegistry == Init /\ [][NextRegistry]_vars
SpecRegistryConc == Init /\ [][NextRegistryConc]_vars
SpecAdmin == InitOneSource /\ [][NextAdmin]_vars
SpecTest == Init /\ [][NextTest]_vars
SpecTask == InitOneSource /\ [][NextTask]_vars
SpecSched == Init /\ [][NextSched]_vars
SpecLifecycle == Init /\ [][NextLifecycle]_vars
SpecAll == InitOneSource /\ [][NextAll]_vars
SpecTransform == InitOneSource /\ [][NextTransform]_vars
SpecEndpoint == InitOneSource /\ [][NextEndpoint]_vars
SpecSyncConc == InitTwoRuns /\ [][NextSyncConc]_vars

\* ------------------------------------------------------------------------
\* Properties of the Synchronizer
\* ------------------------------------------------------------------------

\* the table as the session of a call sees it (committed rows, its flushed
\* and its pending changes)
SessionView(s, table) == Overlay(Overlay(table, s.flushed), s.pending)

\* a record that can be persisted: the constructor accepts it and the table's
\* constraints accept the row
ValidItem(item) == CanConstruct(item) /\ ~Violates(Construct(item, 0))
AllValid(B) == \A i \in DOMAIN B : ValidItem(B[i])
UniqueExt(B) ==
    \A i, j \in DOMAIN B : i # j => B[i].external_id # B[j].external_id

\* the row carries every field of the record that the model has
Carries(row, item) ==
    \A c \in (DOMAIN item \cap Columns) \ {"id"} : row[c] = item[c]

Finished(w) == run[w].st \in {"returned", "raised"}

\* the loop of worker w processes its current record in this step without
\* an exception
ItemDone(w) ==
    /\ run[w].st = "running"
    /\ run[w].i <= Len(run[w].batch)
    /\ run'[w].i = run[w].i + 1
    /\ run'[w].skipped = run[w].skipped

C3_Step(w) ==
    LET s      == run[w]
        item   == s.batch[s.i]
        before == SessionView(s, rows)
        after  == SessionView(run'[w], rows')
        match  == {r \in before : r.external_id = item.external_id}
    IN  (ItemDone(w) /\ item.external_id # None) =>
          /\ match # {} =>
               /\ Cardinality(after) = Cardinality(before)
               /\ \A r \in match :
                    \E q \in after : q.id = r.id /\ Carries(q, item)
               /\ \A r \in before \ match : r \in after
               /\ run'[w].updated = s.updated + 1
               /\ run'[w].inserted = s.inserted
          /\ match = {} =>
               /\ before \subseteq after
               /\ Cardinality(after \ before) = 1
               /\ \A q \in after \ before :
                    q.external_id = item.external_id /\ Carries(q, item)
               /\ run'[w].inserted = s.inserted + 1
               /\ run'[w].updated = s.updated

\* C3: a record with a non-empty externalId that is processed without error
\* is looked up by externalId; when a row exists, the record's fields are
\* written onto that row, its id is kept, no row is added and the record
\* counts as updated; when none exists, exactly one row carrying the record
\* is added and the record counts as inserted.
C3_UpsertByExternalId == [][\A w \in DOMAIN run : C3_Step(w)]_vars

\* a call updated an existing row with a different title, and a call
\* inserted a row while the table already held another
C3_Witness ==
    \E w \in DOMAIN run :
        /\ run[w].st = "returned"
        /\ run[w].updated >= 1
        /\ run[w].inserted >= 1
        /\ run[w].rows0 # {}
        /\ \E r \in run[w].rows0 : \E q \in rows : q.id = r.id /\ q.title # r.title

\* storage holds exactly what synchronizing B into an empty table leaves
IsOutputOf(table, B) ==
    /\ Cardinality(table) = Len(B)
    /\ \A i \in DOMAIN B :
         \E r \in table : r.external_id = B[i].external_id /\ Carries(r, B[i])

\* C4: for a batch B of persistable records with unique externalIds, a call
\* on empty storage returns inserted = |B| with no update, and a call on
\* storage that holds B's own prior output returns inserted = 0 with |B|
\* updates, adds no row and leaves the stored content as it was.
C4_Idempotence ==
    \A w \in DOMAIN run :
        LET s == run[w] IN
        (Finished(w) /\ UniqueExt(s.batch) /\ AllValid(s.batch)) =>
          /\ s.rows0 = {} =>
               /\ s.st = "returned"
               /\ s.result = Len(s.batch)
               /\ s.updated = 0
               /\ IsOutputOf(rows, s.batch)
          /\ IsOutputOf(s.rows0, s.batch) =>
               /\ s.st = "returned"
               /\ s.result = 0
               /\ s.updated = Len(s.batch)
               /\ rows = s.rows0

\* the second of two calls with the same two-record batch has returned
C4_Witness ==
    \E w \in DOMAIN run :
        /\ run[w].st = "returned"
        /\ Len(run[w].batch) = 2
        /\ UniqueExt(run[w].batch) /\ AllValid(run[w].batch)
        /\ run[w].rows0 # {}
        /\ IsOutputOf(run[w].rows0, run[w].batch)
        /\ run[w].result = 0

\* records i < j of B share a non-empty externalId that storage did not hold
\* when the call began, and j is the last record with it
DupPair(s, i, j) ==
    /\ i \in DOMAIN s.batch /\ j \in DOMAIN s.batch /\ i < j
    /\ s.batch[i].external_id # None
    /\ s.batch[i].external_id = s.batch[j].external_id
    /\ \A k \in DOMAIN s.batch :
         k > j => s.batch[k].external_id # s.batch[j].external_id
    /\ \A r \in s.rows0 : r.external_id # s.batch[j].external_id

\* C5: when a batch of persistable records holds two records with the same
\* externalId and storage held no row with it, the finished call leaves
\* exactly one row with that externalId, and the row equals the later record.
C5_LastOneWins ==
    \A w \in DOMAIN run :
        LET s == run[w] IN
        (Finished(w) /\ AllValid(s.batch)) =>
          \A i, j \in DOMAIN s.batch :
            DupPair(s, i, j) =>
              LET same == {r \in rows : r.external_id = s.batch[j].external_id}
              IN /\ Cardinality(same) = 1
                 /\ \A r \in same : Carries(r, s.batch[j])

\* a finished call whose batch held the same externalId twice with different
\* titles
C5_Witness ==
    \E w \in DOMAIN run :
        /\ run[w].st = "returned"
        /\ AllValid(run[w].batch)
        /\ \E i, j \in DOMAIN run[w].batch :
             /\ DupPair(run[w], i, j)
             /\ run[w].batch[i].title # run[w].batch[j].title

\* C6: when persisting one record of a batch fails, that record is skipped
\* and every other record of the batch is still persisted: after the call,
\* storage holds a row for every persistable record of the batch.
C6_PartialFailureIsolation ==
    \A w \in DOMAIN run :
        Finished(w) =>
          \A i \in DOMAIN run[w].batch :
            ValidItem(run[w].batch[i]) =>
              \E r \in rows : r.external_id = run[w].batch[i].external_id

\* worker w's loop is at a record that has no externalId
AtNoExtId(w) ==
    /\ run[w].st = "running"
    /\ run[w].i <= Len(run[w].batch)
    /\ ItemGet(run[w].batch[run[w].i], UniqueField) = None

\* C16: a record without externalId is always inserted as a new row: the
\* step that processes it keeps every row the session saw as it was, adds
\* exactly one row, and counts the record as inserted, neither as updated
\* nor as skipped.
C16_NoExtIdAlwaysInserted ==
    [][\A w \in DOMAIN run :
         (AtNoExtId(w) /\ run[w].tx = "active" /\ run'[w] # run[w]) =>
           LET before == SessionView(run[w], rows)
               after  == SessionView(run'[w], rows')
           IN /\ before \subseteq after
              /\ Cardinality(after \ before) = 1
              /\ run'[w].inserted = run[w].inserted + 1
              /\ run'[w].updated = run[w].updated
              /\ run'[w].skipped = run[w].skipped]_vars

\* C23: each record's insert-or-update is an independent unit of work: when
\* a call aborts, the records that were processed without error before the
\* first failing one remain persisted.
C23_EarlierRecordsSurvive ==
    \A w \in DOMAIN run :
        run[w].st = "raised" =>
          \A i \in DOMAIN run[w].batch :
            (\A j \in 1..i : ValidItem(run[w].batch[j])) =>
              \E r \in rows : r.external_id = run[w].batch[i].external_id

\* C26: in every interleaving of concurrent synchronization runs on the same
\* content type, storage never holds two rows with the same non-empty
\* externalId.
C26_NoDuplicateExternalId ==
    \A r, q \in rows :
        (r.external_id # None /\ r.external_id = q.external_id) => r = q

\* C29: the inserted count upsert_items returns is the number of rows the
\* call added to storage, also when records of the batch were skipped.
C29_InsertedCountIsRowsAdded ==
    \A w \in DOMAIN run :
        run[w].st = "returned" =>
          run[w].result = Cardinality(rows) - Cardinality(run[w].rows0)

\* a call on non-empty storage has returned after inserting one record,
\* updating none and skipping one
C29_Witness ==
    \E w \in DOMAIN run :
        /\ run[w].st = "returned"
        /\ run[w].rows0 # {}
        /\ run[w].skipped = 1
        /\ run[w].result = 1
        /\ Cardinality(rows) = Cardinality(run[w].rows0) + 1

\* ------------------------------------------------------------------------
\* Properties of the collection task
\* ------------------------------------------------------------------------

\* the task's dict reports a failed run
RunFailed == "error" \in t_result.keys

\* C11: when the fetch of a run still fails after the Fetch Client's
\* retries, collect() surfaces the failure, the run is aborted and the task
\* ends as a failed run.
C11_FetchFailureFailsRun ==
    (t_pc = "done" /\ t_raw.fetch = "failed") => (t_exc # None /\ RunFailed)

\* run() is not executing: it has not been entered or it has exited
RunExited == t_pc \in {"idle", "upsert", "done"}

\* C12: run() executes collect() and then transform(), and whenever run()
\* has exited, by return or by an exception of collect() or of transform(),
\* the collector's HTTP client is not open.
C12_ClientClosedOnExit ==
    /\ RunExited => client # "open"
    /\ t_pc = "transform" => (t_raw.fetch # "none" /\ t_exc = None)
    /\ t_exc = "transform" => t_raw.fetch = "ok"

\* run() has exited with the exception transform() raised, after collect()
\* had opened the client
C12_Witness ==
    /\ t_pc = "done"
    /\ t_exc = "transform"
    /\ fc_log # <<>>
    /\ client = "closed"

\* exactly one record of B cannot be persisted
OneFailing(B) == Cardinality({i \in DOMAIN B : ~ValidItem(B[i])}) = 1

\* C17: a run whose fetch and transform went through is never failed by its
\* records: it ends as a succeeded run, and when exactly one record of its
\* batch fails it reports 1 error.
C17_RecordErrorsNeverFailRun ==
    (t_pc = "done" /\ t_raw.fetch = "ok" /\ t_exc = None) =>
        /\ ~RunFailed
        /\ OneFailing(t_data) => "errors" \in t_result.keys

\* ------------------------------------------------------------------------
\* Properties of collect_jobs and collect_all
\* ------------------------------------------------------------------------

\* what the collectors of the log that did not fail add up to
LogTotals(log) ==
    LET ok(i) == i \in DOMAIN log /\ ~JobsFailed(log[i].out)
    IN [collected |-> (IF ok(1) THEN log[1].out.n ELSE 0)
                        + (IF ok(2) THEN log[2].out.n ELSE 0),
        inserted  |-> (IF ok(1) THEN log[1].out.k ELSE 0)
                        + (IF ok(2) THEN log[2].out.k ELSE 0)]

\* C24: a failure while collecting one source is isolated from the others:
\* collect_all has a result for every task it has called, whatever the
\* earlier ones returned, and ends with all eight; collect_jobs drives both
\* collectors whatever the first one did, and its totals are those of the
\* collectors that did not fail.
C24_FailureIsolation ==
    /\ ca_pc \in 1..(Len(AllTasks) + 1) =>
          DOMAIN ca_results = {AllTasks[i] : i \in 1..(ca_pc - 1)}
    /\ cj_pc = "muse" => Len(cj_log) = 1
    /\ cj_pc \in {"return", "done"} =>
          /\ Len(cj_log) = 2
          /\ cj_log[1].collector = "adzuna"
          /\ cj_log[2].collector = "muse"
    /\ cj_pc \in {"muse", "return", "done"} => cj_tot = LogTotals(cj_log)
    /\ (ca_pc \in DOMAIN AllTasks /\ "jobs" \in DOMAIN ca_results) =>
          ca_results["jobs"] = Collected(cj_tot.collected, cj_tot.inserted)

\* collect_all has returned: its first task had failed, inside collect_jobs
\* the first collector's records could not be stored and the second one's
\* were, and the last task succeeded
C24_Witness ==
    /\ ca_pc = Len(AllTasks) + 1
    /\ "error" \in ca_results["products"].keys
    /\ "collected" \in ca_results["mcp"].keys
    /\ cj_pc = "done"
    /\ cj_log[1].out.upsert = "raised"
    /\ ~JobsFailed(cj_log[2].out)
    /\ ca_results["jobs"] = Collected(MaxCollected, MaxCollected)

\* ------------------------------------------------------------------------
\* Properties of transform()
\* ------------------------------------------------------------------------

\* C25: transform() does not raise on a raw item whose source fields are
\* missing or null: it returns one record for the item, and it leaves the
\* collector's client as it was.
C25_TransformNeverRaises ==
    tf_kind # "none" =>
        /\ ~tf_out.raised
        /\ Len(tf_out.records) = 1
        /\ client = "none"

\* ------------------------------------------------------------------------
\* Properties of the on-demand collection
\* ------------------------------------------------------------------------

\* C30: on every path that drives a collector, the on-demand collect
\* endpoints included, an HTTP client the collector opened is closed by the
\* time the operation has finished, on success and on failure.
C30_ClientClosedWhenFinished ==
    t_pc = "done" => client # "open"

\* ------------------------------------------------------------------------
\* Properties of the Scheduler
\* ------------------------------------------------------------------------

\* the source is due at minute t
Due(src, t) ==
    \/ src.last_fetched_at = Never
    \/ t >= src.last_fetched_at[1] + src.fetch_frequency

\* C19: the scheduler triggers a run only for a source that is active, due
\* and not already running: whenever it triggers a run, the registry holds an
\* active source that is due, and no earlier run it triggered is still
\* waiting or executing.
C19_TriggersOnlyActiveDueIdle ==
    [][queued' = queued + 1 =>
         /\ \E id \in DOMAIN sources :
              sources[id].is_active /\ Due(sources[id], now')
         /\ queued = 0
         /\ running = 0]_vars

\* ------------------------------------------------------------------------
\* Properties of the Fetch Client
\* ------------------------------------------------------------------------

\* C1: one fetch_url call makes at most 3 attempts; three transient failures
\* in a row end the call with the failure raised to the caller; a successful
\* attempt is the last one and its response is what the caller gets.
C1_AtMostThreeAttempts ==
    /\ Len(fc_log) <= 3
    /\ (Len(fc_log) = 3 /\ \A i \in 1..3 : fc_log[i] \in Transient) =>
         (fc_pc = "raised" /\ fc_result = "RetryError")
    /\ \A i \in DOMAIN fc_log :
         fc_log[i] = "2xx" =>
           (i = Len(fc_log) /\ fc_pc = "returned" /\ fc_result = "response")

\* three transient failures in a row have been surfaced
C1_Witness ==
    /\ fc_pc = "raised"
    /\ Len(fc_log) = 3
    /\ \A i \in 1..3 : fc_log[i] \in Transient

\* C2: an attempt that receives a 4xx response is the last attempt of its
\* call: no retry is scheduled or made after it.
C2_NoRetryOn4xx ==
    \A i \in DOMAIN fc_log :
        fc_log[i] = "4xx" => (i = Len(fc_log) /\ fc_pc \notin {"sleep", "attempt"})

\* C18: within one fetch_url call the waits between successive attempts never
\* decrease, the first wait is 2 seconds and no wait is longer than 10
\* seconds; a wait is recorded after every failed attempt but the last.
C18_BackoffBounds ==
    /\ \A i \in DOMAIN fc_waits : fc_waits[i] <= 10
    /\ \A i, j \in DOMAIN fc_waits : i <= j => fc_waits[i] <= fc_waits[j]
    /\ fc_waits # <<>> => fc_waits[1] = 2
    /\ fc_pc = "sleep" => Len(fc_waits) = Len(fc_log)
    /\ fc_pc \in {"returned", "raised"} => Len(fc_waits) = Len(fc_log) - 1

\* a call that failed three times has slept twice
C18_Witness ==
    /\ fc_pc = "raised"
    /\ Len(fc_log) = 3
    /\ Len(fc_waits) = 2

\* ------------------------------------------------------------------------
\* Properties of the Source Registry
\* ------------------------------------------------------------------------

\* the runs of source id that are in flight
InFlight(id) == {c \in DOMAIN req : req[c].pc = "fetching" /\ req[c].id = id}

\* C7: at most one run of a given source is in flight at any instant.
C7_OneRunPerSource ==
    \A id \in DOMAIN sources : Cardinality(InFlight(id)) <= 1

\* the manual fetch of client c ends in this step, with the given answer code
ManualFetchEnds(c, code) ==
    /\ req[c].pc = "fetching"
    /\ req'[c].pc = "done"
    /\ req'[c].resp.code = code

\* the status block a successful run leaves, but for items_fetched
SuccessStatus(src, t) ==
    /\ src.last_fetched_at = At(t)
    /\ src.last_success_at = At(t)
    /\ src.last_error = None
    /\ src.error_count = 0

\* rows of content storage the step inserted or updated
RowsWritten == Cardinality(rows' \ rows)

ResetStep(id) ==
    /\ \A c \in DOMAIN req : req'[c].pc = req[c].pc
    /\ sources'[id].is_active = sources[id].is_active
    /\ \/ sources'[id].error_count # sources[id].error_count
       \/ sources'[id].last_error # sources[id].last_error

\* C14: reset-errors sets errorCount to 0 and clears lastError, leaves
\* lastFetchedAt and every other field of the source and every other source
\* as they were, and applying it to its own result changes nothing.
C14_ResetErrorsIdempotent ==
    [][\A id \in DOMAIN sources :
         ResetStep(id) =>
           LET old == sources[id]
               new == sources'[id]
           IN /\ new.error_count = 0
              /\ new.last_error = None
              /\ new.last_fetched_at = old.last_fetched_at
              /\ \A f \in DOMAIN old \ {"error_count", "last_error"} :
                   new[f] = old[f]
              /\ \A other \in DOMAIN sources \ {id} :
                   sources'[other] = sources[other]
              /\ ResetErrors(new) = new]_vars

\* a source whose fetches have only failed has had its errors reset
C14_Witness ==
    \E id \in DOMAIN sources :
        /\ sources[id].error_count = 0
        /\ sources[id].last_error = None
        /\ sources[id].last_fetched_at # Never
        /\ sources[id].last_success_at = Never

\* C15: after any sequence of create, update and delete operations no two
\* stored sources have the same slug, and every stored source has a slug.
C15_SlugUnique ==
    /\ DOMAIN slugs = DOMAIN sources
    /\ \A i, j \in DOMAIN slugs : i # j => slugs[i] # slugs[j]

\* after creates and a delete, a create whose computed slug was already
\* taken has been turned down
C15_Witness ==
    /\ admin_resp.op = "create"
    /\ admin_resp.code = 500
    /\ Cardinality(DOMAIN slugs) >= 2
    /\ \E id \in DOMAIN slugs : slugs[id] = NewSlug(FirstName, slugs)

\* the kind of failure a test request meets, "none" when it meets none
FailureKind(type, out) ==
    IF out.kind = "timeout" THEN "timeout"
    ELSE IF out.kind = "http" THEN "http"
    ELSE IF out.kind = "connect" THEN "generic"
    ELSE IF type = "rss" /\ Bozo(out) THEN "parse"
    ELSE IF type # "rss" /\ NotJson(out) THEN "parse"
    ELSE "none"

\* the kind of failure a message of the test operation speaks of
MessageKind(message) ==
    IF message[1] = "Request timed out" THEN "timeout"
    ELSE IF message[1] = "HTTP error: " THEN "http"
    ELSE IF message[1] = "Connection failed" THEN "generic"
    ELSE IF message[1] \in {"Invalid RSS feed",
                            "URL accessible but response is not JSON."}
      THEN "parse"
    ELSE "none"

\* C20 (as stated): a test request that meets a parse failure, an HTTP
\* failure, a timeout or another failure is answered with success=false and
\* a message of that kind; the message of an HTTP failure carries the status
\* code.
C20_FailureIsReportedFailed ==
    [][\A type \in TestTypes, out \in TestAnswers :
         (TestSource(type, out) /\ FailureKind(type, out) # "none") =>
           /\ admin_resp'.success = FALSE
           /\ MessageKind(admin_resp'.message) = FailureKind(type, out)
           /\ out.kind = "http" => admin_resp'.message[2] = out.code]_vars

\* C20 (amended): a test request that meets a malformed feed, an HTTP
\* failure, a timeout or another transport failure is answered with
\* success=false and a message of that kind, the message of an HTTP failure
\* carrying the status code; a 2xx answer to an api or scrape test whose body
\* is not JSON is answered with success=true and a message that says so.
C20_FailureMessages ==
    [][\A type \in TestTypes, out \in TestAnswers :
         (TestSource(type, out) /\ FailureKind(type, out) # "none") =>
           /\ MessageKind(admin_resp'.message) = FailureKind(type, out)
           /\ out.kind = "http" => admin_resp'.message[2] = out.code
           /\ admin_resp'.success = (type # "rss" /\ out.code = 200)
           /\ (type # "rss" /\ out.code = 200) =>
                admin_resp'.message = <<"URL accessible but response is not JSON.">>]_vars

\* an api test whose answer was not JSON has been answered
C20_Witness ==
    /\ admin_resp.op = "test"
    /\ admin_resp.success = TRUE
    /\ admin_resp.message = <<"URL accessible but response is not JSON.">>

\* C13: a test request is answered with at most 3 sample items, and the
\* step that answers it leaves the Source Registry (rows, slugs, id
\* sequence) and the content storage as they were, whatever the outcome.
C13_TestWritesNothing ==
    [][\A type \in TestTypes, out \in TestAnswers :
         TestSource(type, out) =>
           /\ admin_resp'.samples <= 3
           /\ sources' = sources /\ slugs' = slugs /\ srcSeq' = srcSeq
           /\ rows' = rows /\ nextId' = nextId]_vars

\* a feed of four entries was tested and three samples came back
C13_Witness ==
    /\ admin_resp.op = "test"
    /\ admin_resp.success = TRUE
    /\ admin_resp.message = <<"RSS feed valid. Found ", 4, " items.">>
    /\ admin_resp.samples = 3

\* the classification as the specification words it
C10_Expected(src, t) ==
    IF src.is_active = FALSE THEN "inactive"
    ELSE IF src.error_count >= 5 THEN "error"
    ELSE IF \/ src.error_count \in 1..4
            \/ /\ src.last_fetched_at # Never
               /\ t - src.last_fetched_at[1] > 2 * src.fetch_frequency
      THEN "warning"
    ELSE "ok"

\* C10: the status get_source_health answers for a source is inactive when
\* isActive is false, else error when errorCount >= 5, else warning when
\* errorCount is in 1..4 or the last fetch is older than twice the fetch
\* frequency, else ok.
C10_HealthClassification ==
    [][health' # health =>
         \A id \in DOMAIN sources :
             health'[id] = C10_Expected(sources[id], now)]_vars

\* a source that failed five times in a row was answered as error
C10_Witness ==
    /\ 1 \in DOMAIN health
    /\ health[1] = "error"
    /\ sources[1].error_count >= 5

\* where each client's request stands
ReqPcs == [c \in DOMAIN req |-> req[c].pc]

\* C21: the status block of a source is never written by two runs at once,
\* so no status update is lost: every run of a source that ends as failed
\* raises the stored errorCount by exactly 1, however the runs interleave.
C21_NoLostStatusUpdate ==
    [][\A c \in DOMAIN req :
         ManualFetchEnds(c, 500) =>
           sources'[req[c].id].error_count =
             sources[req[c].id].error_count + 1]_<<sources, ReqPcs>>

\* the five status fields of a source
StatusFields ==
    {"last_fetched_at", "last_success_at", "last_error", "error_count",
     "items_fetched"}

\* the step is an update or a toggle of source id: no manual fetch starts or
\* ends, and the source's configuration changes or an update is answered
AdminEditStep(id) ==
    /\ ReqPcs' = ReqPcs
    /\ \/ sources'[id].is_active # sources[id].is_active
       \/ sources'[id].fetch_frequency # sources[id].fetch_frequency
       \/ admin_resp' # admin_resp /\ admin_resp'.id = id

\* the step is a toggle that turns a paused source on again (update_source is
\* only asked to pause)
ReactivateStep(id) ==
    /\ ReqPcs' = ReqPcs
    /\ ~sources[id].is_active
    /\ sources'[id].is_active

\* C22: the admin operations update and toggle leave the five status fields
\* of the source as they were, and a toggle changes nothing but isActive.
C22_StatusOnlyByRunPath ==
    [][\A id \in DOMAIN sources :
         /\ AdminEditStep(id) =>
              \A f \in StatusFields : sources'[id][f] = sources[id][f]
         /\ ReactivateStep(id) =>
              /\ \A f \in DOMAIN sources[id] \ {"is_active"} :
                   sources'[id][f] = sources[id][f]
              /\ slugs' = slugs]_vars

\* an update has paused a source and changed its frequency after the source
\* had succeeded and then failed, and the status fields still say so
C22_Witness ==
    /\ admin_resp = Answer("update", 200, 1)
    /\ ~sources[1].is_active
    /\ sources[1].fetch_frequency = FreqMax
    /\ sources[1].error_count >= 1
    /\ sources[1].last_error # None
    /\ sources[1].items_fetched >= 1
    /\ sources[1].last_success_at # Never
    /\ sources[1].last_fetched_at # sources[1].last_success_at

\* C28: a manual fetch that ends as failed, at the network call, at the
\* parsing of the response or at the recording of the successful outcome,
\* changes nothing of the source but lastFetchedAt, lastError and errorCount.
C28_FailureFrame ==
    [][\A c \in DOMAIN req :
         (ManualFetchEnds(c, 500) /\ req[c].id \in DOMAIN sources) =>
           /\ \A f \in DOMAIN sources[req[c].id]
                     \ {"last_fetched_at", "last_error", "error_count"} :
                sources'[req[c].id][f] = sources[req[c].id][f]
           /\ slugs' = slugs]_vars

\* a fetch whose answer could not be parsed has failed on a source that had
\* succeeded earlier
C28_Witness ==
    \E c \in DOMAIN req :
        /\ req[c].pc = "done"
        /\ req[c].resp.code = 500
        /\ req[c].resp.detail = <<"Fetch failed: ", "invalid json">>
        /\ sources[req[c].id].last_error = "invalid json"
        /\ sources[req[c].id].items_fetched >= 1
        /\ sources[req[c].id].last_success_at # Never
        /\ sources[req[c].id].last_fetched_at # sources[req[c].id].last_success_at

\* C27: in every reachable state of a source errorCount >= 0, and errorCount
\* is 0 exactly when lastError is unset.
C27_ErrorCountMatchesLastError ==
    \A id \in DOMAIN sources :
        /\ sources[id].error_count >= 0
        /\ sources[id].error_count = 0 <=> sources[id].last_error = None

====
